---- MODULE Spec2Model ----
(***************************************************************************)
(* A model of the feed-forward network of Number_Neural_Network: the       *)
(* Network type with NewNetwork, Predict, Train, save and load, and the    *)
(* MNIST driver (main, mnistTrain, mnistPredict).                          *)
(*                                                                         *)
(* float64 values are fixed-point integers in units of 1/One.  A product   *)
(* of two values is divided by One; math.Exp is evaluated through a table  *)
(* of the logistic function at the integers, linearly interpolated.        *)
(* A *mat.Dense is a record [rows, cols, back]: back is the backing slice  *)
(* up to its capacity, of which the first rows*cols cells are the matrix.  *)
(* A panic of the Go runtime or of gonum is the value BadMat / the error   *)
(* "panic".                                                                *)
(***************************************************************************)
EXTENDS Integers, Sequences, FiniteSets, TLC

VARIABLES net, files, handles, rng, seeded, last, snap, ncalls, pc, mode, dataset, calls

vars == <<net, files, handles, rng, seeded, last, snap, ncalls, pc, mode, dataset, calls>>

-----------------------------------------------------------------------------
(* float64 arithmetic *)

One == 1000

Mul(a, b) == (a * b) \div One

Div(a, b) == (a * One) \div b

RECURSIVE SumTo(_, _)
SumTo(f, n) == IF n = 0 THEN 0 ELSE f[n] + SumTo(f, n - 1)

(* math.Sqrt on the fixed-point value v: the largest s with s*s <= v*One, *)
(* found by bisection of lo..hi                                           *)
RECURSIVE SqrtIn(_, _, _)
SqrtIn(lo, hi, x) ==
    IF lo >= hi THEN lo
    ELSE LET mid == (lo + hi + 1) \div 2
         IN  IF mid * mid <= x THEN SqrtIn(mid, hi, x) ELSE SqrtIn(lo, mid - 1, x)

Sqrt(v) == SqrtIn(0, v + One, v * One)

(* 1/(1+e^-k) for k = 0..6, in units of 1/One *)
LogisticAt == <<500, 731, 881, 953, 982, 993, 998>>

Logistic(z) ==
    LET k == z \div One
    IN  IF k >= 6 THEN LogisticAt[7]
        ELSE LogisticAt[k + 1] + ((LogisticAt[k + 2] - LogisticAt[k + 1]) * (z % One)) \div One

sigmoid(r, c, z) == IF z >= 0 THEN Logistic(z) ELSE One - Logistic(-z)

-----------------------------------------------------------------------------
(* gonum mat.Dense *)

BadMat == [rows |-> -1, cols |-> -1, back |-> <<>>]

IsBad(m) == m.rows < 0

Zeros(n) == [i \in 1..n |-> 0]

(* mat.NewDense(r, c, data): panics on a zero dimension or a wrong length *)
NewDense(r, c, data) ==
    IF r <= 0 \/ c <= 0 \/ Len(data) # r * c THEN BadMat
    ELSE [rows |-> r, cols |-> c, back |-> data]

Data(m) == SubSeq(m.back, 1, m.rows * m.cols)

At(m, i, j) == m.back[(i - 1) * m.cols + j]

Dims(m) == <<m.rows, m.cols>>

IsEmpty(m) == m.rows = 0 /\ m.cols = 0

(* mat.Equal: same dimensions and same cells *)
MatEqual(a, b) == Dims(a) = Dims(b) /\ Data(a) = Data(b)

(* the row and the column of cell x of the row-major data of a matrix with c columns *)
RowOf(x, c) == ((x - 1) \div c) + 1

ColOf(x, c) == ((x - 1) % c) + 1

(* m.T() *)
T(m) ==
    IF IsBad(m) THEN BadMat
    ELSE [rows |-> m.cols, cols |-> m.rows,
          back |-> [x \in 1..(m.cols * m.rows) |-> At(m, ColOf(x, m.rows), RowOf(x, m.rows))]]

dot(m, n) ==
    IF IsBad(m) \/ IsBad(n) \/ m.rows <= 0 \/ n.cols <= 0 \/ m.cols # n.rows THEN BadMat
    ELSE [rows |-> m.rows, cols |-> n.cols,
          back |-> [x \in 1..(m.rows * n.cols) |->
                      SumTo([k \in 1..m.cols |-> At(m, RowOf(x, n.cols), k) * At(n, k, ColOf(x, n.cols))],
                            m.cols) \div One]]

(* fn(i, j, v) for the function passed to apply by its name *)
Call(fn, i, j, v) == IF fn = "sigmoid" THEN sigmoid(i, j, v) ELSE v

apply(fn, m) ==
    IF IsBad(m) \/ m.rows <= 0 \/ m.cols <= 0 THEN BadMat
    ELSE [rows |-> m.rows, cols |-> m.cols,
          back |-> [x \in 1..(m.rows * m.cols) |->
                      Call(fn, RowOf(x, m.cols), ColOf(x, m.cols), m.back[x])]]

scale(s, m) ==
    IF IsBad(m) \/ m.rows <= 0 \/ m.cols <= 0 THEN BadMat
    ELSE [rows |-> m.rows, cols |-> m.cols,
          back |-> [x \in 1..(m.rows * m.cols) |-> Mul(s, m.back[x])]]

multiply(m, n) ==
    IF IsBad(m) \/ IsBad(n) \/ m.rows <= 0 \/ m.cols <= 0 \/ Dims(m) # Dims(n) THEN BadMat
    ELSE [rows |-> m.rows, cols |-> m.cols,
          back |-> [x \in 1..(m.rows * m.cols) |-> Mul(m.back[x], n.back[x])]]

add(m, n) ==
    IF IsBad(m) \/ IsBad(n) \/ m.rows <= 0 \/ m.cols <= 0 \/ Dims(m) # Dims(n) THEN BadMat
    ELSE [rows |-> m.rows, cols |-> m.cols,
          back |-> [x \in 1..(m.rows * m.cols) |-> m.back[x] + n.back[x]]]

subtract(m, n) ==
    IF IsBad(m) \/ IsBad(n) \/ m.rows <= 0 \/ m.cols <= 0 \/ Dims(m) # Dims(n) THEN BadMat
    ELSE [rows |-> m.rows, cols |-> m.cols,
          back |-> [x \in 1..(m.rows * m.cols) |-> m.back[x] - n.back[x]]]

sigmoidPrime(m) ==
    IF IsBad(m) THEN BadMat
    ELSE LET ones == NewDense(m.rows, 1, [i \in 1..m.rows |-> One])
         IN  multiply(m, subtract(ones, m))

-----------------------------------------------------------------------------
(* the global random source of golang.org/x/exp/rand and distuv.Uniform *)

RngMod == 3

(* the state of the global source when rand.Seed was never called *)
DefaultSeed == 1

(* the values time.Now().UTC().UnixNano() takes in different runs *)
ClockValues == {2, 5}

(* rand.Seed(seed) *)
Seed(seed) == seed % RngMod

(* one step of the generator *)
RngNext(r) == (r + 1) % RngMod

(* rand.Float64() of the state reached: a value in [0, 1) *)
Float64(r) == (r * One) \div RngMod

(* dist.Rand() for distuv.Uniform{Min, Max} on the state reached *)
UniformRand(min, max, r) == Mul(Float64(r), max - min) + min

RECURSIVE randomDraws(_, _, _, _)
randomDraws(size, min, max, r) ==
    IF size = 0 THEN <<>>
    ELSE <<UniformRand(min, max, RngNext(r))>> \o randomDraws(size - 1, min, max, RngNext(r))

RECURSIVE RngAfter(_, _)
RngAfter(size, r) == IF size = 0 THEN r ELSE RngAfter(size - 1, RngNext(r))

(* randomArray(size, v) drawing from the global source in state r *)
randomArray(size, v, r) ==
    LET min == -Div(One, Sqrt(v))
        max == Div(One, Sqrt(v))
    IN  randomDraws(size, min, max, r)

-----------------------------------------------------------------------------
(* Network *)

NewNetwork(inputs, hiddens, outputs, rate, r) ==
    LET hw == randomArray(inputs * hiddens, inputs * One, r)
        r2 == RngAfter(inputs * hiddens, r)
        ow == randomArray(outputs * hiddens, hiddens * One, r2)
    IN  [inputs |-> inputs, hiddens |-> hiddens, outputs |-> outputs,
         learningRate |-> rate,
         hiddenWeights |-> NewDense(hiddens, inputs, hw),
         outputWeights |-> NewDense(outputs, hiddens, ow)]

(* the state of the source after NewNetwork *)
RngAfterNewNetwork(inputs, hiddens, outputs, r) ==
    RngAfter(outputs * hiddens, RngAfter(inputs * hiddens, r))

(* func (net Network) Predict: the matrix returned, BadMat when gonum panics *)
Predict(n, inputData) ==
    LET inputs        == NewDense(Len(inputData), 1, inputData)
        hiddenInputs  == dot(n.hiddenWeights, inputs)
        hiddenOutputs == apply("sigmoid", hiddenInputs)
        finalInputs   == dot(n.outputWeights, hiddenOutputs)
        finalOutputs  == apply("sigmoid", finalInputs)
    IN  finalOutputs

(* func (net Network) Train: the fields of the receiver net, which is the   *)
(* method's own copy of the caller's Network, when Train returns            *)
Train(n, inputData, targetData) ==
    LET input         == NewDense(Len(inputData), 1, inputData)
        hiddenInputs  == dot(n.hiddenWeights, input)
        hiddenOutputs == apply("sigmoid", hiddenInputs)
        finalInputs   == dot(n.outputWeights, hiddenOutputs)
        finalOutputs  == apply("sigmoid", finalInputs)
        target        == NewDense(Len(targetData), 1, targetData)
        outputErrors  == subtract(target, finalOutputs)
        hiddenErrors  == dot(T(n.outputWeights), outputErrors)
        newOutput     == add(n.outputWeights,
                             scale(n.learningRate,
                                   dot(multiply(outputErrors, sigmoidPrime(finalOutputs)),
                                       T(hiddenOutputs))))
        newHidden     == add(n.hiddenWeights,
                             scale(n.learningRate,
                                   dot(multiply(hiddenErrors, sigmoidPrime(hiddenOutputs)),
                                       T(input))))
    IN  [n EXCEPT !.outputWeights = newOutput, !.hiddenWeights = newHidden]

TrainPanics(recv) == IsBad(recv.outputWeights) \/ IsBad(recv.hiddenWeights)

-----------------------------------------------------------------------------
(* gonum's binary encoding of a Dense, and the files on disk *)

(* a file: whether it exists, and its content as a sequence of words *)
NoFile == [exists |-> FALSE, bytes |-> <<>>]

(* the fixed part of the header: version, form 'G', packing 'F', uplo 'A' *)
Magic == 71

WordMod == 65536

(* math.Float64bits and math.Float64frombits *)
Float64bits(v) == v % WordMod

Float64frombits(b) == IF b >= WordMod \div 2 THEN b - WordMod ELSE b

(* the stream MarshalBinaryTo writes: header, rows, cols, then the cells row by row *)
MarshalBinary(m) ==
    <<Magic, m.rows, m.cols>> \o [i \in 1..(m.rows * m.cols) |-> Float64bits(m.back[i])]

(* m.Reset(): the dimensions are zeroed, the backing slice keeps its capacity *)
Reset(m) == [rows |-> 0, cols |-> 0, back |-> m.back]

(* use(f, l): the old backing slice when l fits its capacity, else a zeroed one *)
use(back, l) == IF l <= Len(back) THEN back ELSE Zeros(l)

(* m.UnmarshalBinaryFrom(r) on an empty receiver m and a stream holding bytes; *)
(* ioFault: the read of the header fails in the operating system               *)
UnmarshalBinaryFrom(m, bytes, ioFault) ==
    IF ioFault THEN [err |-> "io", m |-> m]
    ELSE IF Len(bytes) = 0 THEN [err |-> "EOF", m |-> m]
    ELSE IF Len(bytes) < 3 THEN [err |-> "unexpectedEOF", m |-> m]
    ELSE IF bytes[1] # Magic THEN [err |-> "wrongType", m |-> m]
    ELSE IF bytes[2] < 0 \/ bytes[3] < 0 THEN [err |-> "badSize", m |-> m]
    ELSE IF bytes[2] * bytes[3] = 0 THEN [err |-> "zeroLength", m |-> m]
    ELSE LET rows == bytes[2]
             cols == bytes[3]
             have == Len(bytes) - 3
             old  == use(m.back, rows * cols)
             new  == [i \in 1..Len(old) |->
                        IF i <= rows * cols /\ i <= have
                        THEN Float64frombits(bytes[3 + i]) ELSE old[i]]
         IN  [err |-> IF have < rows * cols THEN "unexpectedEOF" ELSE "nil",
              m   |-> [rows |-> rows, cols |-> cols, back |-> new]]

(* the errors of a stream that is not a weight matrix *)
FormatErrors == {"EOF", "unexpectedEOF", "wrongType", "badSize", "zeroLength"}

(* the points where the operating system can fail a call of save or load *)
SaveFaults == {"none", "create1", "write1", "create2", "write2"}

LoadFaults == {"none", "open1", "read1", "open2", "read2"}

(* how many words reach the disk when a write fails *)
Cuts == {1, 4}

Written(bytes, failed, cut) ==
    IF failed /\ cut < Len(bytes) THEN SubSeq(bytes, 1, cut) ELSE bytes

WriteFails(bytes, failed, cut) == failed /\ cut < Len(bytes)

(* what a call leaves: its error, the files, the network, the handles still open *)
Return(err, fs, n, opened, deferred) ==
    [err |-> err, files |-> fs, net |-> n, open |-> opened \ deferred]

(* save as it would be with the hidden matrix marshalled into both files *)
saveHiddenTwice(n, fs, fault, cut) ==
    IF fault = "create1" THEN Return("io", fs, n, {}, {"nil"})
    ELSE
    LET b1  == MarshalBinary(n.hiddenWeights)
        fs1 == [fs EXCEPT !.hidden = [exists |-> TRUE,
                                      bytes |-> Written(b1, fault = "write1", cut)]]
    IN
    IF WriteFails(b1, fault = "write1", cut) THEN Return("io", fs1, n, {"hidden"}, {"hidden"})
    ELSE IF fault = "create2" THEN Return("io", fs1, n, {"hidden"}, {"hidden", "nil"})
    ELSE
    LET b2  == MarshalBinary(n.hiddenWeights)
        fs2 == [fs1 EXCEPT !.output = [exists |-> TRUE,
                                       bytes |-> Written(b2, fault = "write2", cut)]]
    IN
    IF WriteFails(b2, fault = "write2", cut)
    THEN Return("io", fs2, n, {"hidden", "output"}, {"hidden", "output"})
    ELSE Return("nil", fs2, n, {"hidden", "output"}, {"hidden", "output"})

(* func (net *Network) save: each Close is deferred right after its Create, *)
(* before the error of the Create is looked at; Close on a nil *os.File     *)
(* closes nothing                                                           *)
save(n, fs, fault, cut) ==
    IF fault = "create1" THEN Return("io", fs, n, {}, {"nil"})
    ELSE
    LET b1  == MarshalBinary(n.hiddenWeights)
        fs1 == [fs EXCEPT !.hidden = [exists |-> TRUE,
                                      bytes |-> Written(b1, fault = "write1", cut)]]
    IN
    IF WriteFails(b1, fault = "write1", cut) THEN Return("io", fs1, n, {"hidden"}, {"hidden"})
    ELSE IF fault = "create2" THEN Return("io", fs1, n, {"hidden"}, {"hidden", "nil"})
    ELSE
    LET b2  == MarshalBinary(n.outputWeights)
        fs2 == [fs1 EXCEPT !.output = [exists |-> TRUE,
                                       bytes |-> Written(b2, fault = "write2", cut)]]
    IN
    IF WriteFails(b2, fault = "write2", cut)
    THEN Return("io", fs2, n, {"hidden", "output"}, {"hidden", "output"})
    ELSE Return("nil", fs2, n, {"hidden", "output"}, {"hidden", "output"})

(* load as it would be with the files closed at its end instead of deferred *)
loadCloseAtEnd(n, fs, fault) ==
    IF fault = "open1" \/ ~fs.hidden.exists THEN Return("io", fs, n, {}, {})
    ELSE
    LET u1 == UnmarshalBinaryFrom(Reset(n.hiddenWeights), fs.hidden.bytes, fault = "read1")
        n1 == [n EXCEPT !.hiddenWeights = u1.m]
    IN
    IF u1.err # "nil" THEN Return(u1.err, fs, n1, {"hidden"}, {})
    ELSE IF fault = "open2" \/ ~fs.output.exists
         THEN Return("io", fs, n1, {"hidden"}, {})
    ELSE
    LET u2 == UnmarshalBinaryFrom(Reset(n1.outputWeights), fs.output.bytes, fault = "read2")
        n2 == [n1 EXCEPT !.outputWeights = u2.m]
    IN
    IF u2.err # "nil" THEN Return(u2.err, fs, n2, {"hidden", "output"}, {})
    ELSE Return("nil", fs, n2, {"hidden", "output"}, {"hidden", "output"})

(* func (net *Network) load: the Closes are deferred as in save; each matrix *)
(* is Reset and then read, once its file is open                             *)
load(n, fs, fault) ==
    IF fault = "open1" \/ ~fs.hidden.exists THEN Return("io", fs, n, {}, {"nil"})
    ELSE
    LET u1 == UnmarshalBinaryFrom(Reset(n.hiddenWeights), fs.hidden.bytes, fault = "read1")
        n1 == [n EXCEPT !.hiddenWeights = u1.m]
    IN
    IF u1.err # "nil" THEN Return(u1.err, fs, n1, {"hidden"}, {"hidden"})
    ELSE IF fault = "open2" \/ ~fs.output.exists
         THEN Return("io", fs, n1, {"hidden"}, {"hidden", "nil"})
    ELSE
    LET u2 == UnmarshalBinaryFrom(Reset(n1.outputWeights), fs.output.bytes, fault = "read2")
        n2 == [n1 EXCEPT !.outputWeights = u2.m]
    IN
    Return(u2.err, fs, n2, {"hidden", "output"}, {"hidden", "output"})

-----------------------------------------------------------------------------
(* bounds of the model *)

NumInputs == 2

MaxHiddens == 2

NumOutputs == 2

(* how many calls of NewNetwork, save and load a run makes *)
MaxCalls == 3

(* the rate main passes to NewNetwork: 0.1 *)
LearningRate == 100

(* input vectors: one cell high, the others low; and one of a wrong length *)
Vectors ==
    {[i \in 1..NumInputs |-> IF i = k THEN 900 ELSE 100] : k \in {1, NumInputs}} \cup {<<500>>}

(* target vectors: 0.99 at the class, 0.01 elsewhere *)
Targets == {[i \in 1..NumOutputs |-> IF i = k THEN 990 ELSE 10] : k \in {1, NumOutputs}}

NoMat == [rows |-> 0, cols |-> 0, back |-> <<>>]

NoSnap == [valid |-> FALSE, sizes |-> <<0, 0, 0>>, hiddenWeights |-> NoMat, outputWeights |-> NoMat]

Sizes(n) == <<n.inputs, n.hiddens, n.outputs>>

(* the record of the call that returned last: op, its error, its input vector,  *)
(* the matrix it returned, and the receiver's fields (recv): for Train its own   *)
(* copy at return, for load the network as it was when load was called; fresh:   *)
(* when the call was made, no load had been called on the network since          *)
(* NewNetwork made it                                                            *)
Called(op, err, arg, out, recv, fresh) ==
    [op |-> op, err |-> err, arg |-> arg, out |-> out, recv |-> recv, fresh |-> fresh]

Running == last.err # "panic"

Fresh == last.fresh /\ last.op # "load"

-----------------------------------------------------------------------------
(* the Network used through its methods, in any order *)

Init ==
    \E h \in 1..MaxHiddens :
        /\ net = NewNetwork(NumInputs, h, NumOutputs, LearningRate, DefaultSeed)
        /\ rng = RngAfterNewNetwork(NumInputs, h, NumOutputs, DefaultSeed)
        /\ last = [op |-> "NewNetwork", err |-> "nil", arg |-> <<>>,
                   out |-> NoMat, recv |-> net, fresh |-> TRUE]
        /\ files = [hidden |-> NoFile, output |-> NoFile]
        /\ handles = {}
        /\ seeded = FALSE
        /\ snap = NoSnap
        /\ ncalls = 0
        /\ pc = "api"
        /\ mode = "none"
        /\ dataset = <<>>
        /\ calls = <<>>

NewNetworkCall(h) ==
    /\ pc = "api" /\ Running /\ ncalls < MaxCalls
    /\ ncalls' = ncalls + 1
    /\ net' = NewNetwork(NumInputs, h, NumOutputs, LearningRate, rng)
    /\ rng' = RngAfterNewNetwork(NumInputs, h, NumOutputs, rng)
    /\ last' = Called("NewNetwork", "nil", <<>>, NoMat, net', TRUE)
    /\ UNCHANGED <<files, handles, seeded, snap, pc, mode, dataset, calls>>

(* Predict as it would be with the activation applied in place to the hidden *)
(* weights of a pointer receiver                                             *)
PredictCallInPlace(inputData) ==
    /\ pc = "api" /\ Running
    /\ LET out == Predict(net, inputData)
       IN  last' = Called("Predict", IF IsBad(out) THEN "panic" ELSE "nil", inputData, out,
                          net, Fresh)
    /\ net' = [net EXCEPT !.hiddenWeights = apply("sigmoid", net.hiddenWeights)]
    /\ UNCHANGED <<files, handles, rng, seeded, snap, ncalls, pc, mode, dataset, calls>>

(* Predict has a value receiver and assigns to no field *)
PredictCall(inputData) ==
    /\ pc = "api" /\ Running
    /\ LET out == Predict(net, inputData)
       IN  last' = Called("Predict", IF IsBad(out) THEN "panic" ELSE "nil", inputData, out,
                          net, Fresh)
    /\ UNCHANGED <<net, files, handles, rng, seeded, snap, ncalls, pc, mode, dataset, calls>>

(* Train has a value receiver: its assignments to net.outputWeights and           *)
(* net.hiddenWeights are made to the method's copy, the caller's Network keeps    *)
(* the matrices it had                                                            *)
TrainCall(inputData, targetData) ==
    /\ pc = "api" /\ Running
    /\ LET recv == Train(net, inputData, targetData)
       IN  last' = Called("Train", IF TrainPanics(recv) THEN "panic" ELSE "nil",
                          inputData, NoMat, recv, Fresh)
    /\ net' = net
    /\ UNCHANGED <<files, handles, rng, seeded, snap, ncalls, pc, mode, dataset, calls>>

SaveCall(fault, cut) ==
    /\ pc = "api" /\ Running /\ ncalls < MaxCalls
    /\ ncalls' = ncalls + 1
    /\ LET r == save(net, files, fault, cut)
       IN  /\ files' = r.files
           /\ handles' = handles \cup r.open
           /\ last' = Called("save", r.err, <<>>, NoMat, net, Fresh)
           /\ snap' = IF r.err = "nil"
                      THEN [valid |-> TRUE, sizes |-> Sizes(net),
                            hiddenWeights |-> net.hiddenWeights,
                            outputWeights |-> net.outputWeights]
                      ELSE IF r.files = files THEN snap ELSE NoSnap
    /\ UNCHANGED <<net, rng, seeded, pc, mode, dataset, calls>>

LoadCall(fault) ==
    /\ pc = "api" /\ Running /\ ncalls < MaxCalls
    /\ ncalls' = ncalls + 1
    /\ LET r == load(net, files, fault)
       IN  /\ net' = r.net
           /\ handles' = handles \cup r.open
           /\ last' = Called("load", r.err, <<>>, NoMat, net, Fresh)
    /\ UNCHANGED <<files, rng, seeded, snap, pc, mode, dataset, calls>>

Next ==
    \/ \E h \in 1..MaxHiddens : NewNetworkCall(h)
    \/ \E v \in Vectors : PredictCall(v)
    \/ \E v \in Vectors, t \in Targets : TrainCall(v, t)
    \/ \E f \in SaveFaults, c \in Cuts : SaveCall(f, c)
    \/ \E f \in LoadFaults : LoadCall(f)

Spec == Init /\ [][Next]_vars

-----------------------------------------------------------------------------
(* the MNIST driver: mnistTrain and mnistPredict on a csv file *)

(* a field of a record is a decimal numeral, written as its value, or text *)
(* that is no number, written BadToken                                     *)
BadToken == -1

(* a line encoding/csv cannot parse: r.Read returns a *csv.ParseError *)
BadLine == <<-2>>

(* how many records a csv file holds at most *)
MaxRecords == 2

(* for epochs := 0; epochs < 5; epochs++ *)
Epochs == 5

(* strconv.ParseFloat(s, 64) and strconv.Atoi(s): the value is 0 on an error *)
ParseFloat(tok) ==
    IF tok = BadToken THEN [v |-> 0, err |-> "syntax"] ELSE [v |-> tok * One, err |-> "nil"]

Atoi(tok) == IF tok = BadToken THEN [v |-> 0, err |-> "syntax"] ELSE [v |-> tok, err |-> "nil"]

(* (x / 0.99 * 255.0) + 0.01 *)
Scaled(x) == Mul(Div(x, 990), 255 * One) + 10

(* inputs := make([]float64, net.inputs); inputs[i] from record[i] *)
InputsOf(n, record) == [i \in 1..n.inputs |-> Scaled(ParseFloat(record[i]).v)]

(* targets: 0.01 everywhere, 0.99 at index x *)
TargetsOf(n, x) == [i \in 1..n.outputs |-> IF i = x + 1 THEN 990 ELSE 10]

(* r.Read() on the record at position i: a line that does not parse, or a    *)
(* record whose number of fields differs from the first record's, is an error *)
ReadFails(rows, i) == rows[i] = BadLine \/ Len(rows[i]) # Len(rows[1])

(* the loop over the records of one epoch, from record i on; sent: the calls *)
(* of Train made so far.  Train's receiver is a copy, n stays as it is.      *)
RECURSIVE TrainRecords(_, _, _, _)
TrainRecords(n, rows, i, sent) ==
    IF i > Len(rows) THEN [err |-> "nil", calls |-> sent]
    ELSE IF ReadFails(rows, i) THEN [err |-> "csv", calls |-> sent]
    ELSE IF Len(rows[i]) < n.inputs THEN [err |-> "panic", calls |-> sent]
    ELSE LET inputs  == InputsOf(n, rows[i])
             x       == Atoi(rows[i][1]).v
             targets == TargetsOf(n, x)
             recv    == Train(n, inputs, targets)
             call    == [fn |-> "Train", record |-> rows[i], inputs |-> inputs]
         IN  IF x < 0 \/ x >= n.outputs THEN [err |-> "panic", calls |-> sent]
             ELSE IF TrainPanics(recv) THEN [err |-> "panic", calls |-> Append(sent, call)]
             ELSE TrainRecords(n, rows, i + 1, Append(sent, call))

RECURSIVE TrainEpochs(_, _, _, _)
TrainEpochs(n, csv, epochs, sent) ==
    IF epochs >= Epochs THEN [err |-> "nil", calls |-> sent]
    ELSE IF ~csv.exists THEN [err |-> "io", calls |-> sent]
    ELSE LET r == TrainRecords(n, csv.rows, 1, sent)
         IN  IF r.err # "nil" THEN r ELSE TrainEpochs(n, csv, epochs + 1, r.calls)

(* func (net *Network) mnistTrain, after its rand.Seed *)
mnistTrain(n, csv) == TrainEpochs(n, csv, 0, <<>>)

(* the index of the first largest cell above 0.0 of the column outputs *)
RECURSIVE Best(_, _, _, _)
Best(outputs, i, best, highest) ==
    IF i > outputs.rows THEN best
    ELSE IF At(outputs, i, 1) > highest THEN Best(outputs, i + 1, i - 1, At(outputs, i, 1))
    ELSE Best(outputs, i + 1, best, highest)

RECURSIVE PredictRecords(_, _, _, _, _)
PredictRecords(n, rows, i, score, sent) ==
    IF i > Len(rows) THEN [err |-> "nil", calls |-> sent, score |-> score]
    ELSE IF ReadFails(rows, i) THEN [err |-> "csv", calls |-> sent, score |-> score]
    ELSE IF Len(rows[i]) < n.inputs THEN [err |-> "panic", calls |-> sent, score |-> score]
    ELSE LET inputs  == InputsOf(n, rows[i])
             outputs == Predict(n, inputs)
             call    == [fn |-> "Predict", record |-> rows[i], inputs |-> inputs]
             target  == Atoi(rows[i][1]).v
         IN  IF IsBad(outputs) \/ outputs.rows < n.outputs
             THEN [err |-> "panic", calls |-> Append(sent, call), score |-> score]
             ELSE PredictRecords(n, rows, i + 1,
                                 IF Best(outputs, 1, 0, 0) = target THEN score + 1 ELSE score,
                                 Append(sent, call))

(* func (net *Network) mnistPredict, after its rand.Seed; the file it opens *)
(* is closed on no path                                                     *)
mnistPredict(n, csv) ==
    IF ~csv.exists THEN [err |-> "io", calls |-> <<>>, score |-> 0, open |-> {}]
    ELSE LET r == PredictRecords(n, csv.rows, 1, 0, <<>>)
         IN  [err |-> r.err, calls |-> r.calls, score |-> r.score, open |-> {"test"}]

-----------------------------------------------------------------------------
(* the program: main, run on a csv file, and run again *)

(* a record: the label, then NumInputs pixel fields, the first and last given *)
Rec(label, first, final) ==
    <<label>> \o [i \in 1..NumInputs |-> IF i = 1 THEN first ELSE IF i = NumInputs THEN final ELSE 0]

Records ==
    {Rec(0, 1, 0), Rec(1, 1, 0), Rec(0, 1, 1), Rec(0, BadToken, 1), Rec(BadToken, 1, 0),
     Rec(NumOutputs, 0, 0), BadLine, <<0>>}

RowsUpTo(k) == UNION {[1..m -> Records] : m \in 0..k}

CsvFiles == {[exists |-> FALSE, rows |-> <<>>]} \cup {[exists |-> TRUE, rows |-> r] : r \in RowsUpTo(MaxRecords)}

Modes == {"train", "predict", ""}

(* how many times the program is started again *)
MaxRuns == 1

NoNet == [inputs |-> 0, hiddens |-> 0, outputs |-> 0, learningRate |-> 0,
          hiddenWeights |-> NoMat, outputWeights |-> NoMat]

MainInit ==
    /\ pc = "start"
    /\ mode \in Modes
    /\ dataset \in CsvFiles
    /\ net = NoNet
    /\ rng = DefaultSeed
    /\ seeded = FALSE
    /\ files = [hidden |-> NoFile, output |-> NoFile]
    /\ handles = {}
    /\ last = [op |-> "start", err |-> "nil", arg |-> <<>>, out |-> NoMat, recv |-> NoNet,
               fresh |-> TRUE]
    /\ snap = NoSnap
    /\ ncalls = 0
    /\ calls = <<>>

(* net := NewNetwork(784, 200, 10, 0.1), with the sizes of the model *)
MainNewNetwork ==
    /\ pc = "start"
    /\ net' = NewNetwork(NumInputs, MaxHiddens, NumOutputs, LearningRate, rng)
    /\ rng' = RngAfterNewNetwork(NumInputs, MaxHiddens, NumOutputs, rng)
    /\ last' = Called("NewNetwork", "nil", <<>>, NoMat, net', TRUE)
    /\ pc' = "switch"
    /\ UNCHANGED <<files, handles, seeded, snap, ncalls, mode, dataset, calls>>

(* case "train": err := net.mnistTrain() *)
MainTrain(clock) ==
    /\ pc = "switch" /\ mode = "train"
    /\ rng' = Seed(clock)
    /\ seeded' = TRUE
    /\ LET r == mnistTrain(net, dataset)
       IN  /\ calls' = r.calls
           /\ last' = Called("mnistTrain", r.err, <<>>, NoMat, net, Fresh)
           /\ pc' = IF r.err = "panic" THEN "crashed" ELSE "save"
    /\ net' = net
    /\ UNCHANGED <<files, handles, snap, ncalls, mode, dataset>>

(* err = net.save() *)
MainSave(fault, cut) ==
    /\ pc = "save"
    /\ LET r == save(net, files, fault, cut)
       IN  /\ files' = r.files
           /\ handles' = handles \cup r.open
           /\ last' = Called("save", r.err, <<>>, NoMat, net, Fresh)
    /\ pc' = "exit"
    /\ UNCHANGED <<net, rng, seeded, snap, ncalls, mode, dataset, calls>>

(* case "predict": err := net.load() *)
MainLoad(fault) ==
    /\ pc = "switch" /\ mode = "predict"
    /\ LET r == load(net, files, fault)
       IN  /\ net' = r.net
           /\ handles' = handles \cup r.open
           /\ last' = Called("load", r.err, <<>>, NoMat, net, Fresh)
    /\ pc' = "predict"
    /\ UNCHANGED <<files, rng, seeded, snap, ncalls, mode, dataset, calls>>

(* err = net.mnistPredict() *)
MainPredict(clock) ==
    /\ pc = "predict"
    /\ rng' = Seed(clock)
    /\ seeded' = TRUE
    /\ LET r == mnistPredict(net, dataset)
       IN  /\ calls' = r.calls
           /\ handles' = handles \cup r.open
           /\ last' = Called("mnistPredict", r.err, <<r.score>>, NoMat, net, Fresh)
           /\ pc' = IF r.err = "panic" THEN "crashed" ELSE "exit"
    /\ UNCHANGED <<net, files, snap, ncalls, mode, dataset>>

(* default: *)
MainDefault ==
    /\ pc = "switch" /\ mode \notin {"train", "predict"}
    /\ pc' = "exit"
    /\ UNCHANGED <<net, files, handles, rng, seeded, last, snap, ncalls, mode, dataset, calls>>

(* the program is started again with flag m: a new process, the same disk *)
MainAgain(m) ==
    /\ pc \in {"exit", "crashed"} /\ ncalls < MaxRuns
    /\ ncalls' = ncalls + 1
    /\ pc' = "start"
    /\ mode' = m
    /\ net' = NoNet
    /\ rng' = DefaultSeed
    /\ seeded' = FALSE
    /\ handles' = {}
    /\ calls' = <<>>
    /\ last' = [op |-> "start", err |-> "nil", arg |-> <<>>, out |-> NoMat, recv |-> NoNet,
                fresh |-> TRUE]
    /\ UNCHANGED <<files, snap, dataset>>

MainNext ==
    \/ MainNewNetwork
    \/ \E t \in ClockValues : MainTrain(t)
    \/ \E f \in SaveFaults, c \in Cuts : MainSave(f, c)
    \/ \E f \in LoadFaults : MainLoad(f)
    \/ \E t \in ClockValues : MainPredict(t)
    \/ MainDefault
    \/ \E m \in Modes : MainAgain(m)

MainSpec == MainInit /\ [][MainNext]_vars

-----------------------------------------------------------------------------
(* properties of the Network's methods *)

(* the dimensions a stored stream announces *)
StoredDims(f) == <<f.bytes[2], f.bytes[3]>>

(* C1: after Train returns without a panic, the caller's network holds the   *)
(* updated matrices old weights + learningRate * gradient that Train formed. *)
TrainUpdatesCaller ==
    (last.op = "Train" /\ last.err = "nil") =>
        /\ MatEqual(net.outputWeights, last.recv.outputWeights)
        /\ MatEqual(net.hiddenWeights, last.recv.hiddenWeights)

(* C2: load never returns success after reading a file whose stored row and *)
(* column counts differ from the shape of the matrix it is loaded into.     *)
LoadRejectsShapeMismatch ==
    (last.op = "load" /\ last.err = "nil") =>
        /\ StoredDims(files.hidden) = <<net.hiddens, net.inputs>>
        /\ StoredDims(files.output) = <<net.outputs, net.hiddens>>

(* C3: in every reachable state hiddenWeights is hiddens x inputs and *)
(* outputWeights is outputs x hiddens.                                *)
ShapeInvariant ==
    /\ Dims(net.hiddenWeights) = <<net.hiddens, net.inputs>>
    /\ Dims(net.outputWeights) = <<net.outputs, net.hiddens>>

(* C4: a load that returns an error leaves both matrices reset or both *)
(* matrices as they were before the call.                              *)
LoadFailureUniform ==
    [][(last'.op = "load" /\ last'.err # "nil") =>
          \/ IsEmpty(net'.hiddenWeights) /\ IsEmpty(net'.outputWeights)
          \/ net'.hiddenWeights = net.hiddenWeights /\ net'.outputWeights = net.outputWeights]_vars

(* C5: a Predict call changes no field of the network, and a Predict call that *)
(* follows a Predict call with the same input returns the same matrix.         *)
PredictReadOnly ==
    [][(last'.op = "Predict") =>
          /\ net' = net
          /\ (last.op = "Predict" /\ last.arg = last'.arg) => last'.out = last.out]_vars

(* C5 witness: Predict returned an outputs x 1 matrix of activations in (0, 1) *)
PredictReturned ==
    /\ last.op = "Predict" /\ last.err = "nil"
    /\ Dims(last.out) = <<net.outputs, 1>>
    /\ \A i \in 1..net.outputs : At(last.out, i, 1) > 0 /\ At(last.out, i, 1) < One

(* the network a successful save wrote *)
Saved == [net EXCEPT !.hiddenWeights = snap.hiddenWeights, !.outputWeights = snap.outputWeights]

(* C6: a successful load into a freshly constructed network of the shape of   *)
(* the network that was saved gives it the saved hiddenWeights and            *)
(* outputWeights, and Predict returns on it what it returns on the saved one. *)
RoundTrip ==
    (last.op = "load" /\ last.err = "nil" /\ last.fresh /\ snap.valid /\ snap.sizes = Sizes(net)) =>
        /\ MatEqual(net.hiddenWeights, snap.hiddenWeights)
        /\ MatEqual(net.outputWeights, snap.outputWeights)
        /\ \A v \in Vectors : Predict(net, v) = Predict(Saved, v)

(* C6 witness: a fresh network of the saved shape whose weights differed from *)
(* the saved ones was loaded                                                  *)
RoundTripDone ==
    /\ last.op = "load" /\ last.err = "nil" /\ last.fresh
    /\ snap.valid /\ snap.sizes = Sizes(net)
    /\ ~MatEqual(last.recv.hiddenWeights, snap.hiddenWeights)
    /\ ~MatEqual(last.recv.outputWeights, snap.outputWeights)
    /\ MatEqual(net.hiddenWeights, snap.hiddenWeights)
    /\ \E i \in 1..Len(Data(net.hiddenWeights)) : Data(net.hiddenWeights)[i] < 0

(* C10: no file handle that save or load opened is open after the call returned. *)
NoHandleLeak == handles = {}

(* C10 witness: a load failed after it had opened a file *)
LoadFailedAfterOpen ==
    /\ last.op = "load" /\ last.err = "unexpectedEOF" /\ handles = {}
    /\ ~IsEmpty(net.hiddenWeights) /\ IsEmpty(net.outputWeights)

-----------------------------------------------------------------------------
(* properties of the program and its driver *)

Numeric(fields) == \A i \in 1..Len(fields) : fields[i] >= 0

(* the pixel fields of a record: all but the label, which is field 0 *)
Pixels(record) == SubSeq(record, 2, Len(record))

(* C7: mnistTrain calls Train with no vector built from a record that has a  *)
(* field that is no number, and returns nil only when every record of the    *)
(* file was read and parsed without an error.                                *)
TrainPropagatesSampleErrors ==
    (last.op = "mnistTrain") =>
        /\ \A i \in 1..Len(calls) : Numeric(calls[i].record)
        /\ (last.err = "nil") =>
              /\ dataset.exists
              /\ \A i \in 1..Len(dataset.rows) :
                    dataset.rows[i] # BadLine /\ Numeric(dataset.rows[i])

(* C8: when the weights of the network have been drawn, the random source *)
(* has been seeded from the clock.                                        *)
SeededBeforeDraw == (net # NoNet) => seeded

(* C9: for two records whose fields are numbers, the vectors handed to Train *)
(* and Predict are the same when the records have the same pixel fields,     *)
(* whatever their labels, and differ when they differ in a pixel field.      *)
InputFromPixelsOnly ==
    \A i, j \in 1..Len(calls) :
        (Numeric(calls[i].record) /\ Numeric(calls[j].record)) =>
            /\ (Pixels(calls[i].record) = Pixels(calls[j].record)) => calls[i].inputs = calls[j].inputs
            /\ (Pixels(calls[i].record) # Pixels(calls[j].record)) => calls[i].inputs # calls[j].inputs

====
